---- MODULE Spec2Model ----
(***************************************************************************)
(* Measurement sessions of the Tapo measurement tool.                      *)
(*                                                                         *)
(* Two programs share the same session code: src/tapo_measure_tool.py      *)
(* (program = "tool") and its earlier variant src/measure.py               *)
(* (program = "measure").  The model follows the coroutines                *)
(* measure_power_async / measure_power, the ping coroutine, the Tk         *)
(* callbacks queued with root.after and the window-close handler.          *)
(*                                                                         *)
(* Time is a discrete clock `now` (one unit = one second).  A coroutine    *)
(* suspended in an await resumes when the awaited operation completes:     *)
(* a device call at any instant up to its wait_for timeout, a sleep        *)
(* exactly when its delay has elapsed.  Task.cancel() marks the task;      *)
(* the CancelledError is thrown into the coroutine at its await when the   *)
(* event loop next runs it.                                                *)
(***************************************************************************)
EXTENDS Integers, Sequences, FiniteSets, TLC

\* ---- bounds of the model
MaxSessions == 2
MaxPower == 2
MaxInterval == 2
MaxDuration == 2
MaxPings == 1
MaxLatency == 2
MaxSamples == 3

\* ---- program constants
ConnectTimeout == 5
ReadTimeout == 5

Sessions == 1..MaxSessions
Powers == 1..MaxPower
Intervals == 1..MaxInterval
Durations == 1..MaxDuration
Programs == {"tool", "measure"}

\* File names are token sequences: the base name typed by the user, then the
\* counter that get_unique_filename appends as "_<counter>".  The base name
\* "a_1" is the token sequence <<"a", 1>>, which is also what base "a" with
\* counter 1 formats to.
Bases == {<<"a">>, <<"a", 1>>}
NoName == <<>>
Addresses == {"", "ip"}

\* A Python local that may be unbound: <<>> is unbound, <<v>> is bound to v.
Unbound == <<>>
Bound(v) == <<v>>
IsBound(x) == x # <<>>

VARIABLES
    program,           \* which of the two programs runs
    now,               \* the clock: loop.time() and datetime.now()
    window,            \* "open", "closing" (on_close is running), "destroyed"
    widgets,           \* state of the buttons and entries other than measure_button
    measure_button,    \* state of the Start Measurement button
    after_queue,       \* callbacks queued with root.after(0, ...)
    pings,             \* ping_ip_async coroutines in flight
    tasks,             \* the sessions: coroutine positions and locals
    measurement_task,  \* the module-level task handle: 0 unset/None, else a session
    files,             \* the results folder: path -> content
    progress_bar,      \* progress_bar["value"]
    remaining_time,    \* the number shown by remaining_time_label
    ip_var,            \* the form: selected device address
    filename_var,      \* the form: CSV base name
    interval_var,      \* the form: measure interval
    duration_var,      \* the form: measure duration
    clicks,            \* Start Measurement clicks the user still makes
    device_delay       \* the longest the device takes to answer in this run

form == <<ip_var, filename_var, interval_var, duration_var>>
env == <<program, clicks, device_delay>>

vars == <<program, now, window, widgets, measure_button, after_queue, pings,
          tasks, measurement_task, files, progress_bar, remaining_time, form,
          clicks, device_delay>>

\* ---- pure helpers, computed as the code computes them

\* os.path.join(folder, f"{base_filename}_{counter}.csv"); counter 0 stands for
\* the first probe f"{filename}.csv".
CsvPath(filename, counter) ==
    IF counter = 0 THEN filename ELSE Append(filename, counter)

RECURSIVE Probe(_, _, _)
Probe(existing, filename, counter) ==
    IF CsvPath(filename, counter) \in existing
    THEN Probe(existing, filename, counter + 1)
    ELSE CsvPath(filename, counter)

\* mutant: only the suffix _1 is tried
get_unique_filename_one_probe(existing, filename) ==
    CsvPath(filename, IF filename \in existing THEN 1 ELSE 0)

\* get_unique_filename(folder, filename): `existing` is the set of paths for
\* which os.path.exists is true.
get_unique_filename(existing, filename) == Probe(existing, filename, 0)

\* measure.py builds the path without probing.
plain_filename(existing, filename) == CsvPath(filename, 0)

\* mutant: the loop needs a whole second left before it takes a tick
LoopConditionLate(t, end_time) == t + 1 < end_time

\* the while condition of the sampling loop
LoopCondition(t, end_time) == t < end_time

\* mutant: the except clause resets current_power to 0
AfterReadReset(current_power, reading) ==
    IF IsBound(reading) THEN reading ELSE Bound(0)

\* try: current_power = energy_data.current_power / except: keep the old binding
AfterRead(current_power, reading) ==
    IF IsBound(reading) THEN reading ELSE current_power

\* progress * 100 with progress = elapsed_time / measure_duration
ProgressValue(elapsed_time, measure_duration) ==
    (elapsed_time * 100) \div measure_duration

\* int(measure_duration - elapsed_time)
RemainingTime(elapsed_time, measure_duration) == measure_duration - elapsed_time

\* A Tk call from the worker succeeds while the application exists and raises
\* TclError once root.destroy() has run.
TkAlive == window # "destroyed"

NoTask ==
    [wpc |-> "none", wresult |-> "none",
     pc |-> "none", outcome |-> "none",
     must_cancel |-> FALSE, since |-> 0,
     ip |-> "", interval |-> 0, duration |-> 0, csv_name |-> NoName,
     end_time |-> 0, start_time |-> 0,
     measurements |-> <<>>, current_power |-> Unbound,
     measure_interrupt |-> FALSE,
     reads |-> <<>>, reports |-> <<>>, cancel_at |-> "none", writes |-> 0,
     exc |-> "none"]

ExternalFile == [header |-> TRUE, rows |-> <<>>, closed |-> TRUE, owner |-> 0]

\* The state after the module has run to root.mainloop(): no task, the
\* button disabled until a ping succeeds, the form filled in by the user.
Started ==
    /\ program \in Programs
    /\ now = 0
    /\ window = "open"
    /\ widgets = "normal"
    /\ measure_button = "disabled"
    /\ after_queue = <<>>
    /\ pings = 0
    /\ tasks = [s \in Sessions |-> NoTask]
    /\ measurement_task = 0
    /\ \E present \in SUBSET {<<"a">>} :
           files = [p \in present |-> ExternalFile]
    /\ progress_bar = 0
    /\ remaining_time = 0
    /\ interval_var \in Intervals
    /\ duration_var \in Durations

\* Several sessions in one run, any form content, a device that answers at
\* once.
Init ==
    /\ Started
    /\ ip_var \in Addresses
    /\ filename_var \in Bases \cup {NoName}
    /\ clicks = MaxSessions
    /\ device_delay = 0

\* One session in one run, a valid form, a device that takes up to
\* MaxLatency to answer.
InitSession ==
    /\ Started
    /\ ip_var = "ip"
    /\ filename_var = <<"a">>
    /\ clicks = 1
    /\ device_delay = MaxLatency

\* What every run starts from: the window open, no task, the button disabled
\* until a ping succeeds.
Booted ==
    /\ now = 0
    /\ window = "open"
    /\ widgets = "normal"
    /\ measure_button = "disabled"
    /\ after_queue = <<>>
    /\ pings = 0
    /\ tasks = [s \in Sessions |-> NoTask]
    /\ measurement_task = 0
    /\ progress_bar = 0
    /\ remaining_time = 0

\* The tool with several sessions in one run over every content of the results
\* folder: the base name, its first suffixes, any of them already there.
InitNaming ==
    /\ Booted
    /\ program = "tool"
    /\ \E present \in SUBSET {<<"a">>, <<"a", 1>>, <<"a", 2>>} :
           files = [p \in present |-> ExternalFile]
    /\ interval_var = 1
    /\ duration_var = 1
    /\ ip_var = "ip"
    /\ filename_var \in Bases
    /\ clicks = MaxSessions
    /\ device_delay = 0

\* One session in one run with any form content, the numbers typed for the
\* interval and the duration included: 0 stands for the values that are not
\* positive.
InitConfig ==
    /\ Booted
    /\ program \in Programs
    /\ files = <<>>
    /\ interval_var \in 0..1
    /\ duration_var \in 0..1
    /\ ip_var \in Addresses
    /\ filename_var \in {NoName, <<"a">>}
    /\ clicks = 1
    /\ device_delay = 1

\* ---- the presentation thread (Tk main loop)

\* set_all_widgets_state(state, root): every Button, Entry and Combobox,
\* measure_button included.
WidgetsSet(state) ==
    /\ widgets' = state
    /\ measure_button' = state

\* Tk runs one callback queued with root.after(0, set_all_widgets_state, ...).
ProcessAfter ==
    /\ window = "open"
    /\ after_queue # <<>>
    /\ WidgetsSet(Head(after_queue))
    /\ after_queue' = Tail(after_queue)
    /\ UNCHANGED <<env, now, window, pings, tasks, measurement_task, files,
                   progress_bar, remaining_time, form>>

FreeSlot(s) ==
    /\ tasks[s].wpc = "none"
    /\ \A r \in Sessions : r < s => tasks[r].wpc # "none"

\* start_measurement_threadsafe: the Start Measurement button hands a new
\* measure_power_async coroutine to the worker.
start_measurement_threadsafe(s) ==
    /\ window = "open"
    /\ measure_button = "normal"
    /\ clicks > 0
    /\ FreeSlot(s)
    /\ clicks' = clicks - 1
    /\ tasks' = [tasks EXCEPT ![s].wpc = "scheduled"]
    /\ UNCHANGED <<program, device_delay, now, window, widgets,
                   measure_button, after_queue, pings, measurement_task,
                   files, progress_bar, remaining_time, form>>

\* ping_ip_threadsafe with an address selected: a ping coroutine starts.
ping_ip_threadsafe ==
    /\ window = "open"
    /\ widgets = "normal"
    /\ pings < MaxPings
    /\ pings' = pings + 1
    /\ UNCHANGED <<env, now, window, widgets, measure_button, after_queue,
                   tasks, measurement_task, files, progress_bar,
                   remaining_time, form>>

\* ---- the worker

\* ping_ip_async after its two device calls: success enables measure_button,
\* a timeout or an error only shows a message.
PingDone(ok) ==
    /\ pings > 0
    /\ pings' = pings - 1
    /\ measure_button' = IF ok /\ TkAlive THEN "normal" ELSE measure_button
    /\ UNCHANGED <<env, now, window, widgets, after_queue, tasks,
                   measurement_task, files, progress_bar, remaining_time,
                   form>>

\* The path measure_power_async resolves for the session.
ResolvePath(existing, filename) ==
    IF program = "tool"
    THEN get_unique_filename(existing, filename)
    ELSE plain_filename(existing, filename)

\* The validation measure_power_async performs before creating the task.
InputRejected(ip, filename) == ip = "" \/ filename = NoName

\* measure_power_async up to its await: queue the disabling of the widgets,
\* read the form, validate, resolve the path, create the task and store it in
\* measurement_task.
\* The event loop of the tool runs the coroutines handed to it in the order
\* of the clicks; measure.py gives each its own thread.
NextToRun(s) ==
    program = "tool" =>
        \A r \in Sessions : r < s => tasks[r].wpc # "scheduled"

measure_power_async(s) ==
    /\ tasks[s].wpc = "scheduled"
    /\ NextToRun(s)
    /\ IF ~TkAlive
       THEN /\ tasks' = [tasks EXCEPT ![s].wpc = "done",
                                      ![s].wresult = "exception"]
            /\ UNCHANGED <<after_queue, measurement_task>>
       ELSE IF InputRejected(ip_var, filename_var)
       THEN /\ tasks' = [tasks EXCEPT ![s].wpc = "done",
                                      ![s].wresult = "returned",
                                      ![s].reports = Append(@, "invalid")]
            /\ after_queue' = after_queue \o <<"disabled", "normal">>
            /\ UNCHANGED measurement_task
       ELSE /\ tasks' = [tasks EXCEPT ![s] =
                   [@ EXCEPT !.wpc = "await", !.pc = "connect",
                             !.since = now, !.ip = ip_var,
                             !.interval = interval_var,
                             !.duration = duration_var,
                             !.csv_name =
                                 ResolvePath(DOMAIN files, filename_var)]]
            /\ after_queue' = Append(after_queue, "disabled")
            /\ measurement_task' = s
    /\ UNCHANGED <<env, now, window, widgets, measure_button, pings, files,
                   progress_bar, remaining_time, form>>


\* ---- measure_power

Min(a, b) == IF a < b THEN a ELSE b

\* measure_power is left: its locals are gone and the task is done with the
\* given outcome.  What the session did stays in cancel_at, reports, writes
\* and measure_interrupt.
Ended(t, outcome) ==
    [t EXCEPT !.pc = "done", !.outcome = outcome, !.must_cancel = FALSE,
              !.since = 0, !.end_time = 0, !.start_time = 0,
              !.measurements = <<>>, !.current_power = Unbound,
              !.reads = <<>>]

\* An exception leaves measure_power: the task is done with that exception.
Raise(t, exc) == Ended([t EXCEPT !.exc = exc], "exception")

\* The loop condition is evaluated: another read is issued, or the loop is left
\* with measure_interrupt still False.
LoopTop(t) ==
    IF LoopCondition(now, t.end_time)
    THEN [t EXCEPT !.pc = "read", !.since = now]
    ELSE [t EXCEPT !.pc = "write"]

\* client.p110(tapo_ip) under wait_for(timeout=5) completes: on success the
\* session takes end_time and start_time and enters the loop; a TimeoutError
\* or a connection error leaves measure_power.
ConnectDone(s, ok) ==
    /\ tasks[s].pc = "connect"
    /\ ~tasks[s].must_cancel
    /\ now - tasks[s].since <= Min(device_delay, ConnectTimeout)
    /\ ok => now - tasks[s].since < ConnectTimeout
    /\ tasks' = [tasks EXCEPT ![s] =
           IF ok
           THEN LoopTop([@ EXCEPT !.end_time = now + tasks[s].duration,
                                  !.start_time = now,
                                  !.measurements = <<>>,
                                  !.measure_interrupt = FALSE])
           ELSE Raise(@, "ConnectError")]
    /\ UNCHANGED <<env, now, window, widgets, measure_button, after_queue,
                   pings, measurement_task, files, progress_bar,
                   remaining_time, form>>

\* The sample the loop appends.
Sample(t, power) == [timestamp |-> now, power |-> power]

\* The loop body after the try/except around the read: `reading` is what
\* device.get_energy_usage() gave (Unbound when the except clause ran).
\* Appending needs current_power bound (else UnboundLocalError); the progress
\* widgets need the application to exist (else TclError).
BodyTask(t, reading) ==
    LET cp == AfterRead(t.current_power, reading)
        t0 == [t EXCEPT !.reads = Append(@, reading), !.must_cancel = FALSE]
    IN  IF ~IsBound(cp)
        THEN Raise(t0, "UnboundLocalError")
        ELSE LET t1 == [t0 EXCEPT !.current_power = cp,
                                  !.measurements = Append(@, Sample(t, cp[1]))]
             IN  IF ~TkAlive
                 THEN Raise(t1, "TclError")
                 ELSE [t1 EXCEPT !.pc = "sleep", !.since = now]

Body(s, reading) ==
    /\ tasks' = [tasks EXCEPT ![s] = BodyTask(@, reading)]
    /\ IF BodyTask(tasks[s], reading).pc = "sleep"
       THEN /\ progress_bar' =
                   ProgressValue(now - tasks[s].start_time, tasks[s].duration)
            /\ remaining_time' =
                   RemainingTime(now - tasks[s].start_time, tasks[s].duration)
       ELSE UNCHANGED <<progress_bar, remaining_time>>

\* device.get_energy_usage() under wait_for(timeout=5) completes, with a
\* reading or with an error or timeout, and the loop body runs to the sleep.
ReadDone(s, reading) ==
    /\ tasks[s].pc = "read"
    /\ ~tasks[s].must_cancel
    /\ Len(tasks[s].measurements) < MaxSamples
    /\ now - tasks[s].since <= Min(device_delay, ReadTimeout)
    /\ IsBound(reading) => now - tasks[s].since < ReadTimeout
    /\ Body(s, reading)
    /\ UNCHANGED <<env, now, window, widgets, measure_button, after_queue,
                   pings, measurement_task, files, form>>

\* asyncio.sleep(measure_interval) completes and the loop condition is
\* evaluated again.
SleepDone(s) ==
    /\ tasks[s].pc = "sleep"
    /\ ~tasks[s].must_cancel
    /\ now = tasks[s].since + tasks[s].interval
    /\ tasks' = [tasks EXCEPT ![s] = LoopTop(@)]
    /\ UNCHANGED <<env, now, window, widgets, measure_button, after_queue,
                   pings, measurement_task, files, progress_bar,
                   remaining_time, form>>

\* mutant: the CancelledError thrown at the sleep is ignored like a wake-up
SleepCancelledIgnored(t) == LoopTop([t EXCEPT !.must_cancel = FALSE])

\* What the CancelledError thrown at the sleep does: the except clause sets
\* measure_interrupt and breaks, the write is skipped, measure_power returns.
SleepCancelled(t) ==
    Ended([t EXCEPT !.measure_interrupt = TRUE], "returned")

\* What the CancelledError thrown at the connect does: nothing catches it.
ConnectCancelled(t) == Ended(t, "cancelled")

\* The event loop runs a task marked by cancel(): CancelledError is thrown in
\* at the await the task is suspended in.  At the read the bare except clause
\* catches it like any read error and the loop body goes on.
DeliverCancel(s) ==
    /\ tasks[s].must_cancel
    /\ tasks[s].pc \in {"connect", "read", "sleep"}
    /\ IF tasks[s].pc = "read"
       THEN Body(s, Unbound)
       ELSE /\ tasks' = [tasks EXCEPT ![s] =
                   IF @.pc = "connect" THEN ConnectCancelled(@)
                                       ELSE SleepCancelled(@)]
            /\ UNCHANGED <<progress_bar, remaining_time>>
    /\ UNCHANGED <<env, now, window, widgets, measure_button, after_queue,
                   pings, measurement_task, files, form>>


\* ---- the write on completion

\* The file left by open(csv_name, "w") ... writerows(measurements) when the
\* with block is left normally.
WrittenFile(s, rows) ==
    [header |-> TRUE, rows |-> rows, closed |-> TRUE, owner |-> s]

\* The file left when a write raises inside the with block: open() has
\* truncated or created it and `k` rows reached it (`header` tells whether
\* the header row did).
PartialFile(s, rows, header, k) ==
    [header |-> header, rows |-> SubSeq(rows, 1, k), closed |-> FALSE,
     owner |-> s]

\* How measure_power ends after the write: Task.__step turns a return into a
\* cancellation when cancel() marked the task while it was running.
Returned(t) ==
    Ended(t, IF t.must_cancel THEN "cancelled" ELSE "returned")

\* The re-enabling of the widgets after the write: queued with root.after by
\* the tool, called directly by measure.py.
ReEnable ==
    IF program = "tool"
    THEN /\ after_queue' = Append(after_queue, "normal")
         /\ UNCHANGED <<widgets, measure_button>>
    ELSE /\ WidgetsSet("normal")
         /\ UNCHANGED after_queue

\* `if not measure_interrupt:` after the loop has ended by its condition:
\* the progress bar is set to 100 (tool), the file is opened and written, the
\* success box is shown and the widgets are re-enabled.  A Tk call on a
\* destroyed application, open() or a write may raise.
WriteOutput(s, result, header, k) ==
    /\ tasks[s].pc = "write"
    /\ result \in {"ok", "open_fails", "write_fails"}
    /\ k \in {0, Len(tasks[s].measurements) - 1} \cap Nat
    /\ k > 0 => header
    /\ result # "write_fails" => header /\ k = 0
    /\ LET t == tasks[s]
           tkFirst == program = "tool" /\ ~TkAlive
       IN  IF tkFirst \/ result = "open_fails"
           THEN /\ tasks' = [tasks EXCEPT ![s] =
                       Raise(t, IF tkFirst THEN "TclError" ELSE "OSError")]
                /\ UNCHANGED <<files, progress_bar, after_queue, widgets,
                               measure_button>>
           ELSE /\ progress_bar' = IF program = "tool" THEN 100 ELSE progress_bar
                /\ IF result = "write_fails"
                   THEN /\ files' = [p \in DOMAIN files \cup {t.csv_name} |->
                               IF p = t.csv_name
                               THEN PartialFile(s, t.measurements, header, k)
                               ELSE files[p]]
                        /\ tasks' = [tasks EXCEPT ![s] =
                               Raise([t EXCEPT !.writes = @ + 1], "OSError")]
                        /\ UNCHANGED <<after_queue, widgets, measure_button>>
                   ELSE /\ files' = [p \in DOMAIN files \cup {t.csv_name} |->
                               IF p = t.csv_name
                               THEN WrittenFile(s, t.measurements)
                               ELSE files[p]]
                        /\ IF ~TkAlive
                           THEN /\ tasks' = [tasks EXCEPT ![s] =
                                       Raise([t EXCEPT !.writes = @ + 1],
                                             "TclError")]
                                /\ UNCHANGED <<after_queue, widgets,
                                               measure_button>>
                           ELSE /\ tasks' = [tasks EXCEPT ![s] =
                                       Returned([t EXCEPT
                                           !.writes = @ + 1,
                                           !.reports = Append(@, "success")])]
                                /\ ReEnable
    /\ UNCHANGED <<env, now, window, pings, measurement_task,
                   remaining_time, form>>

\* measure_power_async after `await measurement_task`.  The tool catches
\* CancelledError and reports it with update_status (recorded in reports);
\* any other exception, and in measure.py the CancelledError too, leaves the
\* coroutine unreported.
AwaitDone(s) ==
    /\ tasks[s].wpc = "await"
    /\ tasks[s].pc = "done"
    /\ LET t == tasks[s]
       IN  IF t.outcome = "returned"
           THEN tasks' = [tasks EXCEPT ![s].wpc = "done",
                                       ![s].wresult = "returned"]
           ELSE IF t.outcome = "cancelled" /\ program = "tool" /\ TkAlive
           THEN tasks' = [tasks EXCEPT ![s].wpc = "done",
                                       ![s].wresult = "returned",
                                       ![s].reports = Append(@, "cancelled")]
           ELSE tasks' = [tasks EXCEPT ![s].wpc = "done",
                                       ![s].wresult = "exception"]
    /\ UNCHANGED <<env, now, window, widgets, measure_button, after_queue,
                   pings, measurement_task, files, progress_bar,
                   remaining_time, form>>


\* ---- the window-close handler

TaskDone(t) == t.pc = "done"

\* Task.cancel(): nothing on a finished task, else the task is marked and
\* the future it waits for is cancelled.  cancel_at records where the task
\* stood at the first request.
Cancel(t) ==
    IF TaskDone(t)
    THEN t
    ELSE [t EXCEPT !.must_cancel = TRUE,
                   !.cancel_at = IF @ = "none" THEN t.pc ELSE @]

\* Whether on_close reaches its cancel() call.  The tool guards it with
\* `is not None and not done()` (a NameError before the first start is
\* caught); measure.py with the truth of the handle.
CancelGuard ==
    /\ measurement_task # 0
    /\ program = "tool" => ~TaskDone(tasks[measurement_task])

\* measure.py: measurement_task.result() re-raises the exception of a task
\* that ended with one (CancelledError and InvalidStateError are caught), and
\* on_close ends there.
ResultRaises ==
    /\ program = "measure"
    /\ measurement_task # 0
    /\ TaskDone(tasks[measurement_task])
    /\ tasks[measurement_task].outcome = "exception"

\* on_close up to root.quit(): the cancellation of the task in
\* measurement_task.
on_close_cancel ==
    /\ window = "open"
    /\ tasks' = IF CancelGuard
                THEN [tasks EXCEPT ![measurement_task] = Cancel(@)]
                ELSE tasks
    /\ window' = IF ResultRaises THEN "open" ELSE "closing"
    /\ UNCHANGED <<env, now, widgets, measure_button, after_queue, pings,
                   measurement_task, files, progress_bar, remaining_time, form>>

\* on_close from root.quit(): root.quit() and root.destroy().
on_close_destroy ==
    /\ window = "closing"
    /\ window' = "destroyed"
    /\ UNCHANGED <<env, now, widgets, measure_button, after_queue, pings,
                   tasks, measurement_task, files, progress_bar,
                   remaining_time, form>>

\* ---- time

\* The latest instant at which the await of task t ends.
Deadline(t) ==
    IF t.pc = "sleep" THEN t.since + t.interval
    ELSE IF t.pc = "read" THEN t.since + Min(device_delay, ReadTimeout)
    ELSE t.since + Min(device_delay, ConnectTimeout)

\* Whether task t has a step to take before the clock moves.
Urgent(t) ==
    \/ t.wpc = "scheduled"
    \/ t.pc = "write"
    \/ t.wpc = "await" /\ t.pc = "done"
    \/ t.pc \in {"connect", "read", "sleep"} /\ now >= Deadline(t)

\* The clock moves while some task awaits, no task has a step due, and
\* on_close is not in the middle of running.
Advance ==
    /\ window # "closing"
    /\ \E s \in Sessions : tasks[s].pc \in {"connect", "read", "sleep"}
    /\ \A s \in Sessions : ~Urgent(tasks[s])
    /\ now' = now + 1
    /\ UNCHANGED <<env, window, widgets, measure_button, after_queue,
                   pings, tasks, measurement_task, files, progress_bar,
                   remaining_time, form>>

Readings == {Unbound} \cup {Bound(v) : v \in Powers}

Next ==
    \/ ProcessAfter
    \/ \E s \in Sessions : start_measurement_threadsafe(s)
    \/ ping_ip_threadsafe
    \/ \E ok \in BOOLEAN : PingDone(ok)
    \/ \E s \in Sessions : measure_power_async(s)
    \/ \E s \in Sessions, ok \in BOOLEAN : ConnectDone(s, ok)
    \/ \E s \in Sessions, reading \in Readings : ReadDone(s, reading)
    \/ \E s \in Sessions : SleepDone(s)
    \/ \E s \in Sessions : DeliverCancel(s)
    \/ \E s \in Sessions, result \in {"ok", "open_fails", "write_fails"},
          header \in BOOLEAN, k \in 0..MaxDuration :
           WriteOutput(s, result, header, k)
    \/ \E s \in Sessions : AwaitDone(s)
    \/ on_close_cancel
    \/ on_close_destroy
    \/ Advance

Spec == Init /\ [][Next]_vars

SpecSession == InitSession /\ [][Next]_vars

SpecNaming == InitNaming /\ [][Next]_vars

SpecConfig == InitConfig /\ [][Next]_vars

\* ---- session states

\* The session state of a task, read off the coroutine: Connecting at the
\* connect, Running in the loop and at the write, Cancelling once cancel()
\* has marked it; a finished task is Failed (exception), Cancelled (the task
\* was cancelled, or the loop was left by the break) or Completed.
State(t) ==
    IF t.pc = "none" THEN "Idle"
    ELSE IF t.pc = "done"
    THEN IF t.outcome = "exception" THEN "Failed"
         ELSE IF t.outcome = "cancelled" \/ t.measure_interrupt
         THEN "Cancelled"
         ELSE "Completed"
    ELSE IF t.must_cancel THEN "Cancelling"
    ELSE IF t.pc = "connect" THEN "Connecting"
    ELSE "Running"

NonTerminal(t) == State(t) \in {"Connecting", "Running", "Cancelling"}

\* The files a session left at its output path.
FilesOf(s) == {p \in DOMAIN files : files[p].owner = s}


\* ---- claims

\* a session cancelled while Running has ended
C1_Witness ==
    \E s \in Sessions :
        tasks[s].cancel_at \in {"read", "sleep"} /\ tasks[s].pc = "done"

\* C1: whenever cancellation is requested while the session is Running, in
\* an in-flight device read or in the pacing sleep, the session ends
\* Cancelled and no output file is created or modified at its output path.
C1_CancelWhileRunningEndsCancelled ==
    \A s \in Sessions :
        (tasks[s].cancel_at \in {"read", "sleep"} /\ tasks[s].pc = "done")
            => (State(tasks[s]) = "Cancelled" /\ tasks[s].writes = 0)

\* C2: in every reachable state at most one measurement session is
\* non-terminal (Connecting, Running or Cancelling).
C2_AtMostOneActiveSession ==
    Cardinality({s \in Sessions : NonTerminal(tasks[s])}) <= 1

\* C3: a start request handled while a session is non-terminal is rejected
\* (no task is created for it) and leaves measurement_task and every other
\* session as they were.
C3_StartWhileBusyRejected ==
    [][\A s \in Sessions :
          (/\ tasks[s].wpc = "scheduled"
           /\ tasks'[s].wpc # "scheduled"
           /\ \E r \in Sessions : NonTerminal(tasks[r]))
          => (/\ tasks'[s].pc = "none"
              /\ measurement_task' = measurement_task
              /\ \A r \in Sessions \ {s} : tasks'[r] = tasks[r])]_vars


Range(seq) == {seq[i] : i \in DOMAIN seq}

\* Both coroutines of session s have ended.
Over(s) == tasks[s].wpc = "done" /\ tasks[s].pc = "done"

\* C4: every session started with a valid configuration reaches a terminal
\* state and its outcome is reported to the presentation layer exactly once;
\* stated on the finished session: once both coroutines have ended, exactly
\* one report (success box, cancellation status or error box) was made.
C4_TerminalReportedOnce ==
    \A s \in Sessions : Over(s) => Len(tasks[s].reports) = 1

\* C5: a device read that fails at any tick, the first included, never ends
\* the session: while the application exists, the step that ends a read
\* records a sample for the tick and goes on to the pacing sleep.
C5_ReadFailureNeverEndsSession ==
    [][\A s \in Sessions :
          (/\ tasks[s].pc = "read"
           /\ tasks'[s].pc # "read"
           /\ window # "destroyed")
          => (/\ tasks'[s].pc = "sleep"
              /\ Len(tasks'[s].measurements) =
                     Len(tasks[s].measurements) + 1)]_vars

\* The last tick before tick i whose read succeeded.
LastGood(reads, i) ==
    CHOOSE j \in 1..(i - 1) :
        /\ IsBound(reads[j])
        /\ \A k \in (j + 1)..(i - 1) : ~IsBound(reads[k])

\* C6: for every tick whose read fails after an earlier read of the session
\* succeeded, the power recorded for the tick is the power of the most
\* recent successful read.
C6_FailedTickRepeatsLastReading ==
    \A s \in Sessions :
        LET t == tasks[s]
        IN  /\ Len(t.reads) = Len(t.measurements)
            /\ \A i \in 1..Len(t.measurements) :
                   (/\ ~IsBound(t.reads[i])
                    /\ \E j \in 1..(i - 1) : IsBound(t.reads[j]))
                   => t.measurements[i].power =
                          t.reads[LastGood(t.reads, i)][1]

\* a session has recorded a tick whose read failed after a successful one
C6_Witness ==
    \E s \in Sessions :
        /\ Len(tasks[s].measurements) >= 2
        /\ IsBound(tasks[s].reads[1])
        /\ ~IsBound(tasks[s].reads[2])

\* C7: when opening the device connection times out or raises, the session
\* ends Failed, an error is reported to the presentation layer, no sample is
\* taken and no file is written.
C7_ConnectFailureReported ==
    \A s \in Sessions :
        (tasks[s].exc = "ConnectError" /\ Over(s))
            => (/\ State(tasks[s]) = "Failed"
                /\ "error" \in Range(tasks[s].reports)
                /\ tasks[s].writes = 0
                /\ FilesOf(s) = {})

\* C8: a session that completes naturally writes exactly N or N+1 data rows,
\* N = floor(duration / interval), whatever the device read latencies.
C8_RowCountNOrNPlusOne ==
    \A p \in DOMAIN files :
        (files[p].owner # 0 /\ files[p].closed)
            => LET t == tasks[files[p].owner]
                   N == t.duration \div t.interval
               IN  Len(files[p].rows) \in {N, N + 1}

\* C9 as stated: a session whose duration is shorter than one interval
\* records zero samples and its file holds the header row only.
C9_ShortSessionZeroSamples ==
    \A s \in Sessions :
        tasks[s].duration < tasks[s].interval
            => (/\ Len(tasks[s].measurements) = 0
                /\ \A p \in FilesOf(s) :
                       files[p].closed
                           => files[p].header /\ Len(files[p].rows) = 0)

\* C9 amended: a session whose duration is shorter than one interval makes
\* exactly one tick, at its start: it never holds more than one sample, and
\* the file it writes on completion holds the header row and one data row.
C9_ShortSessionOneSample ==
    \A s \in Sessions :
        tasks[s].duration < tasks[s].interval
            => (/\ Len(tasks[s].measurements) <= 1
                /\ tasks[s].pc \in {"sleep", "write"}
                       => Len(tasks[s].measurements) = 1
                /\ \A p \in FilesOf(s) :
                       files[p].closed
                           => files[p].header /\ Len(files[p].rows) = 1)

\* a session shorter than one interval has completed and written its file
C9_Witness ==
    \E s \in Sessions :
        /\ tasks[s].duration < tasks[s].interval
        /\ State(tasks[s]) = "Completed"
        /\ \E p \in FilesOf(s) : files[p].closed

\* C10: if writing the output file fails part-way, no truncated file is left
\* at the output path, and the session ends Failed with the error reported.
C10_FailedWriteLeavesNoFile ==
    \A s \in Sessions :
        (tasks[s].exc = "OSError" /\ tasks[s].writes > 0 /\ Over(s))
            => (/\ \A p \in FilesOf(s) : files[p].closed
                /\ State(tasks[s]) = "Failed"
                /\ "error" \in Range(tasks[s].reports))

\* C11: the output file is written exactly once per session that reaches
\* Completed, at the Completed transition, and never for a session that ends
\* Cancelled or Failed nor before the loop has ended: a session that has
\* written is over, a Completed session has written once, a Cancelled or
\* Failed one never.
C11_WrittenOnceOnCompletedOnly ==
    \A s \in Sessions :
        LET t == tasks[s]
        IN  /\ t.writes <= 1
            /\ t.writes > 0 => t.pc = "done"
            /\ State(t) = "Completed" => t.writes = 1
            /\ State(t) \in {"Cancelled", "Failed"} => t.writes = 0

\* C12: when the window is closed while a session is active, cancellation is
\* requested and on_close waits until the session has reached a terminal
\* state before the application exits: once the window is destroyed no
\* session is Connecting, Running or Cancelling.
C12_CloseWaitsForAcknowledgement ==
    window = "destroyed" => \A s \in Sessions : ~NonTerminal(tasks[s])

\* C13: get_unique_filename returns a path that does not exist in the
\* folder, base.csv when it is free and otherwise base_k.csv for the smallest
\* free k >= 1; so the path a session resolves differs from the path of every
\* session that completed before with the same base name, and a resolved
\* path stays the session's path.
C13_UniqueFilename ==
    [][\A s \in Sessions :
          /\ (tasks[s].wpc = "scheduled" /\ tasks'[s].wpc = "await")
             => LET existing == DOMAIN files
                    p == tasks'[s].csv_name
                IN  /\ p \notin existing
                    /\ filename_var \notin existing => p = filename_var
                    /\ filename_var \in existing =>
                           \E k \in 1..Cardinality(existing) :
                               /\ p = CsvPath(filename_var, k)
                               /\ \A j \in 1..(k - 1) :
                                      CsvPath(filename_var, j) \in existing
                    /\ \A r \in Sessions :
                           State(tasks[r]) = "Completed"
                               => p # tasks[r].csv_name
          /\ tasks[s].csv_name # NoName
             => tasks'[s].csv_name = tasks[s].csv_name]_vars

\* two sessions with the same base name have completed one after the other
\* and each has its own file, the later one under a suffix
C13_Witness ==
    \E r, s \in Sessions :
        /\ State(tasks[r]) = "Completed"
        /\ State(tasks[s]) = "Completed"
        /\ tasks[r].csv_name # tasks[s].csv_name
        /\ files[tasks[r].csv_name].owner = r
        /\ files[tasks[s].csv_name].owner = s
        /\ Len(tasks[s].csv_name) > Len(filename_var)

\* What the specification calls a valid configuration.
ValidConfig ==
    /\ ip_var # ""
    /\ filename_var # NoName
    /\ interval_var > 0
    /\ duration_var > 0

\* C14: a start request whose configuration is invalid (empty address, empty
\* output name, interval <= 0 or duration <= 0) is rejected with an error
\* before any device connection is attempted and no session is created:
\* while the application exists, the step that handles such a request
\* reports the rejection and creates no task.
C14_InvalidConfigRejected ==
    [][\A s \in Sessions :
          (/\ tasks[s].wpc = "scheduled"
           /\ tasks'[s].wpc # "scheduled"
           /\ window # "destroyed"
           /\ ~ValidConfig)
          => (/\ tasks'[s].pc = "none"
              /\ "invalid" \in Range(tasks'[s].reports)
              /\ measurement_task' = measurement_task)]_vars

\* C15: every progress report carries a percentage within [0, 100] and a
\* remaining-seconds value >= 0, whatever the read latency up to the read
\* timeout.
C15_ProgressWithinRange ==
    /\ progress_bar \in 0..100
    /\ remaining_time >= 0

\* C16: the pacing wait after tick k (k = 0 for the first tick) ends at
\* start + (k+1) x interval computed from the session start, so the tick
\* times do not accumulate the latencies of the device reads.
C16_PacingFromSessionStart ==
    \A s \in Sessions :
        tasks[s].pc = "sleep"
            => Deadline(tasks[s]) =
                   tasks[s].start_time
                       + Len(tasks[s].measurements) * tasks[s].interval

\* C17: once cancellation has been requested while the session was in its
\* pacing sleep, the session issues no further device read, appends no
\* further sample, reports no further progress and writes nothing: the only
\* step left to it is leaving the loop.
C17_CancelInSleepStopsSession ==
    [][\A s \in Sessions :
          tasks[s].cancel_at = "sleep"
          => (/\ tasks'[s].pc \in {"sleep", "done"}
              /\ tasks[s].pc = "done" => tasks'[s].pc = "done"
              /\ Len(tasks'[s].measurements) <= Len(tasks[s].measurements)
              /\ Len(tasks'[s].reads) <= Len(tasks[s].reads)
              /\ tasks'[s].writes = 0
              /\ progress_bar' = progress_bar
              /\ remaining_time' = remaining_time)]_vars

\* a session cancelled in its sleep has left the loop by the break
C17_Witness ==
    \E s \in Sessions :
        /\ tasks[s].cancel_at = "sleep"
        /\ tasks[s].pc = "done"
        /\ tasks[s].measure_interrupt

\* C18: on natural completion the progress value is set to 100, the output
\* file holds the header followed by exactly one row per recorded sample in
\* capture order, and success is reported: stated on the step that takes a
\* session from the end of its loop to Completed.
C18_CompletionWritesAllSamples ==
    [][\A s \in Sessions :
          (tasks[s].pc = "write" /\ State(tasks'[s]) = "Completed")
          => (/\ progress_bar' = 100
              /\ tasks[s].csv_name \in DOMAIN files'
              /\ files'[tasks[s].csv_name] =
                     [header |-> TRUE, rows |-> tasks[s].measurements,
                      closed |-> TRUE, owner |-> s]
              /\ "success" \in Range(tasks'[s].reports))]_vars

\* C19: every start request that disables the input controls is followed by
\* the controls being re-enabled once the session is over, whichever way it
\* ends: with the window open, every started session over and no callback
\* left in the queue of the Tk main loop, the controls are enabled.
C19_ControlsReEnabledWhenOver ==
    (/\ window = "open"
     /\ after_queue = <<>>
     /\ \A s \in Sessions : tasks[s].wpc \in {"none", "done"})
        => widgets = "normal"

\* C20: the output path resolved when a session starts is still free when
\* the session writes its file: the step that opens the file for writing
\* never finds a file at that path, the file of another session included.
C20_WriteNeverOverwrites ==
    [][\A s \in Sessions :
          (tasks[s].pc = "write" /\ tasks'[s].writes > tasks[s].writes)
          => tasks[s].csv_name \notin DOMAIN files]_vars

\* C21: on_close always goes on to quit and destroy the application window,
\* whatever the state of the last session: in every state with the window
\* open, a run of on_close reaches root.quit().
C21_OnCloseAlwaysDestroys ==
    window = "open" => ENABLED (on_close_cancel /\ window' = "closing")

====
